---- MODULE Spec2Model ----
(***************************************************************************)
(* The sosistab3 stream adapter (SosistabPipe) of sillad-sosistab3:        *)
(* poll_write / poll_flush / poll_close / poll_read over a lower pipe,     *)
(* with the framing engine (State::encrypt / State::decrypt) between the   *)
(* caller's plaintext and the lower pipe's ciphertext.                     *)
(*                                                                         *)
(* Two adapters, "client" and "server", are joined back to back: what one  *)
(* writes to its lower pipe is what the other's lower pipe delivers.       *)
(* Each adapter call is one action; the answers the lower pipe gives       *)
(* during the call are the action's input (a script of responses).         *)
(***************************************************************************)
EXTENDS Integers, Sequences, FiniteSets, TLC

VARIABLES
    state,          \* SosistabPipe.state        (per adapter)
    read_buf,       \* SosistabPipe.read_buf
    read_closed,    \* SosistabPipe.read_closed
    raw_read_buf,   \* SosistabPipe.raw_read_buf
    to_write_buf,   \* SosistabPipe.to_write_buf
    wire,           \* lower pipe: bytes accepted from adapter a, not yet delivered to its peer
    wire_closed,    \* lower pipe: adapter a's write side has been closed
    w_busy,         \* caller: a poll_write of w_slice[a] has not yet returned Ready(Ok)
    w_slice,        \* caller: the slice last passed to poll_write
    w_count,        \* caller: number of slices submitted so far
    w_dead,         \* caller: a write-side call returned an error; the caller stops writing
    sent_plain,     \* history: concatenation of the slices passed to poll_write
    recv_plain,     \* history: concatenation of the bytes returned by poll_read
    tampered,       \* history: number of wire bytes altered in flight
    seen,           \* history: "eof" / "broken" once poll_read has returned them
    lost,           \* history: bytes passed in place of a slice that was still pending
    last,           \* observation of the most recent adapter call
    config,         \* the collaborators' variant: how State::decrypt reports an incomplete
                    \* frame, and whether the lower pipe may accept zero bytes of a write
    ck,             \* cookie strings and Cookie values: the text at hand, the Cookie
                    \* made from it, the Cookie the text was printed from
    dd              \* the dedup store, the sessions calling check_and_insert, the clock

\* what the adapter actions leave alone
side_vars == <<config, ck, dd>>

\* the adapters, their lower pipes and their callers
pipe_vars == <<state, read_buf, read_closed, raw_read_buf, to_write_buf, wire, wire_closed,
               w_busy, w_slice, w_count, w_dead, sent_plain, recv_plain, tampered, seen,
               lost, last>>

vars == <<pipe_vars, side_vars>>

----------------------------------------------------------------------------
(* Bounds of the model *)

MaxWrites == 2
MaxSliceLen == 2
MaxBuf == 2
MaxPolls == 2
MaxTamper == 1
LiveWrites == 1
MaxFields == 2
MaxRounds == 2
MaxTime == 2
MaxCalls == 1

Adapters == {"client", "server"}
Peer(a) == IF a = "client" THEN "server" ELSE "client"

Min(x, y) == IF x < y THEN x ELSE y
Drain(s, n) == SubSeq(s, n + 1, Len(s))
Take(s, n) == SubSeq(s, 1, n)
IsPrefix(s, t) == Len(s) <= Len(t) /\ s = Take(t, Len(s))

\* F applied to the value v, v being evaluated once
Bind(v, F(_)) == CHOOSE y \in {F(x) : x \in {v}} : TRUE

RECURSIVE Sum(_)
Sum(s) == IF s = <<>> THEN 0 ELSE Head(s) + Sum(Tail(s))

----------------------------------------------------------------------------
(* Poll results and lower-pipe responses: Pending, Ready(Ok(n)), Ready(Err(e)) *)

Pending == [t |-> "pending", n |-> 0, e |-> ""]
Ok(k) == [t |-> "ok", n |-> k, e |-> ""]
Err(x) == [t |-> "err", n |-> 0, e |-> x]
\* poll_read's own fatal error, ErrorKind::BrokenPipe
BrokenPipe == "BrokenPipe"
\* errors a lower pipe may report
LowerErrs == {"ConnectionReset", "TimedOut"}

\* what a lower pipe may answer: Pending, one of the errors errs, or a count
\* of bytes in lo .. hi
Resp(errs, lo, hi) == {Pending} \cup {Err(x) : x \in errs} \cup {Ok(k) : k \in lo .. hi}

RECURSIVE SeqsUpTo(_, _)
SeqsUpTo(S, n) ==
    IF n = 0 THEN {<<>>}
    ELSE LET prev == SeqsUpTo(S, n - 1)
         IN  prev \cup {Append(s, x) : s \in {q \in prev : Len(q) = n - 1}, x \in S}

\* the lower pipe's answers during one adapter call, in order
Scripts(lo, hi) == SeqsUpTo(Resp(LowerErrs, lo, hi), MaxPolls)
\* the same of a lower pipe that does not fail
CalmScripts(lo, hi) == SeqsUpTo(Resp({}, lo, hi), MaxPolls)

----------------------------------------------------------------------------
(* The framing engine, State.  A frame is a header carrying the masked      *)
(* length, the masked payload, and an authentication tag; the mask and the  *)
(* tag depend on the direction key and the frame counter.                   *)

NewState(sk, rk) == [send_key |-> sk, recv_key |-> rk, send_n |-> 0, recv_n |-> 0]

Tag(k, n, p) == Sum(p) + Len(p) + 2 * k + n

Frame(st, p) ==
    <<Len(p) + st.send_key + st.send_n>>
        \o [i \in 1 .. Len(p) |-> p[i] + st.send_key + st.send_n]
        \o <<Tag(st.send_key, st.send_n, p)>>

\* State::encrypt(buf, out): appends one frame for buf to out
encrypt(st, p, out) ==
    [state |-> [st EXCEPT !.send_n = @ + 1], out |-> out \o Frame(st, p)]

NeedMore == [t |-> "needmore", n |-> 0, out |-> <<>>]
BadFrame == [t |-> "brokenpipe", n |-> 0, out |-> <<>>]

\* one frame at the front of raw
DecryptOne(st, raw) ==
    IF Len(raw) < 2 THEN NeedMore
    ELSE LET L == raw[1] - st.recv_key - st.recv_n
         IN  IF L < 0 THEN BadFrame
             ELSE IF Len(raw) < L + 2 THEN NeedMore
             ELSE LET p == [i \in 1 .. L |-> raw[i + 1] - st.recv_key - st.recv_n]
                  IN  IF raw[L + 2] # Tag(st.recv_key, st.recv_n, p)
                      THEN BadFrame
                      ELSE [t |-> "ok", n |-> L + 2, out |-> p]

\* State::decrypt(raw, out): as many complete frames as are present; the
\* result carries the new state, the bytes consumed and the plaintext.
RECURSIVE DecryptFrames(_, _, _, _)
DecryptFrames(st, raw, used, out) ==
    Bind(DecryptOne(st, raw), LAMBDA r :
        IF r.t = "ok"
        THEN DecryptFrames([st EXCEPT !.recv_n = @ + 1], Drain(raw, r.n),
                           used + r.n, out \o r.out)
        ELSE IF used > 0
        THEN [t |-> "ok", n |-> used, out |-> out, state |-> st]
        ELSE [t |-> r.t, n |-> 0, out |-> <<>>, state |-> st])

decrypt(st, raw) == DecryptFrames(st, raw, 0, <<>>)

----------------------------------------------------------------------------
(* Cookie strings.  A string is a sequence of lexemes: the characters of a   *)
(* token ("c", "-"), the double quote and the backslash, and the lexemes of  *)
(* JSON text, a quoted field name ("\"obfs_lengths\"", quotes included)      *)
(* being one lexeme and the bare word inside it (obfs_lengths) another.      *)
(* A key is a sequence of lexemes too: a random key, or the                  *)
(* key-derivation function applied to a label and a string (a term, so that  *)
(* two keys are equal only if they were derived from equal inputs).          *)

Dash == "-"
FieldNames == {"obfs_lengths", "obfs_timing"}
Names == FieldNames \cup {"other"}
Quote == "\""
Backslash == "\\"

\* the JSON string "n", as one lexeme
Quoted(n) ==
    CASE n = "obfs_lengths" -> "\"obfs_lengths\""
      [] n = "obfs_timing" -> "\"obfs_timing\""
      [] OTHER -> "\"other\""

NameLex == {Quoted(n) : n \in Names}
Unquote(lex) == CHOOSE n \in Names : Quoted(n) = lex
ValueLex == {"true", "false", "1"}

\* lib.rs 27-33: #[derive(Default)]
ObfsParams_default == [obfs_lengths |-> FALSE, obfs_timing |-> FALSE]

\* blake3::derive_key(context, material)
blake3_derive_key(context, material) == <<"kdf", context, "(">> \o material \o <<")">>

\* rand::random(): the i-th random key
random_key(i) == <<"key", IF i = 1 THEN "r1" ELSE "r2">>

\* hex::encode(key): hexadecimal digits only, a dash, a quote or a backslash
\* among the bytes appearing as its two digits
hex_digits(lex) ==
    CASE lex = Dash -> "2d"
      [] lex = Quote -> "22"
      [] lex = Backslash -> "5c"
      [] lex \in NameLex -> Unquote(lex)
      [] OTHER -> lex

hex_encode(key) == <<"hex(">> \o [i \in 1 .. Len(key) |-> hex_digits(key[i])] \o <<")">>

BoolText(b) == IF b THEN "true" ELSE "false"

\* serde_json::to_string(&params), lib.rs 27 #[derive(Serialize)]: every field, in order
to_string(params) ==
    <<"{", Quoted("obfs_lengths"), ":", BoolText(params.obfs_lengths), ",",
      Quoted("obfs_timing"), ":", BoolText(params.obfs_timing), "}">>

\* str::split_once("---"): the text before and after the first "---"
RECURSIVE split_at(_, _)
split_at(str, i) ==
    IF i + 2 > Len(str) THEN [found |-> FALSE, a |-> str, b |-> <<>>]
    ELSE IF str[i] = Dash /\ str[i + 1] = Dash /\ str[i + 2] = Dash
    THEN [found |-> TRUE, a |-> Take(str, i - 1), b |-> Drain(str, i + 2)]
    ELSE split_at(str, i + 1)

split_once(str) == split_at(str, 1)

ParseFail == [ok |-> FALSE, params |-> ObfsParams_default]
NoFields == [n \in FieldNames |-> "unset"]

\* the end of the object: every field of ObfsParams must have been given
\* (the derive has no #[serde(default)]), and no text may follow
visit_end(acc, at_end) ==
    IF ~at_end \/ (\E n \in FieldNames : acc[n] = "unset") THEN ParseFail
    ELSE [ok |-> TRUE, params |-> [obfs_lengths |-> acc["obfs_lengths"] = "true",
                                   obfs_timing |-> acc["obfs_timing"] = "true"]]

\* the derived Deserialize of ObfsParams over the members of a JSON object,
\* toks[i] being the next member's name: a field given twice or given a value
\* that is not a boolean fails, a member of another name is skipped
RECURSIVE visit_map(_, _, _)
visit_map(toks, i, acc) ==
    IF i + 3 > Len(toks) THEN ParseFail
    ELSE IF toks[i] \notin NameLex \/ toks[i + 1] # ":" \/ toks[i + 2] \notin ValueLex
    THEN ParseFail
    ELSE IF Unquote(toks[i]) \in FieldNames /\ acc[Unquote(toks[i])] # "unset"
    THEN ParseFail
    ELSE IF Unquote(toks[i]) \in FieldNames /\ toks[i + 2] \notin {"true", "false"}
    THEN ParseFail
    ELSE Bind(IF Unquote(toks[i]) \in FieldNames
              THEN [acc EXCEPT ![Unquote(toks[i])] = toks[i + 2]] ELSE acc,
              LAMBDA acc2 :
                  IF toks[i + 3] = "," THEN visit_map(toks, i + 4, acc2)
                  ELSE IF toks[i + 3] = "}" THEN visit_end(acc2, i + 3 = Len(toks))
                  ELSE ParseFail)

\* serde_json::from_str::<ObfsParams>(text)
from_str(toks) ==
    IF Len(toks) < 2 \/ toks[1] # "{" THEN ParseFail
    ELSE IF toks[2] = "}" THEN visit_end(NoFields, Len(toks) = 2)
    ELSE visit_map(toks, 2, NoFields)

\* lib.rs 50: serde_json::from_str(b).unwrap_or_default()
unwrap_or_default(r) == IF r.ok THEN r.params ELSE ObfsParams_default

\* lib.rs 48-59: Cookie::new
Cookie_new(str) ==
    LET sp == split_once(str)
    IN  [key |-> blake3_derive_key("cookie", sp.a),
         params |-> IF sp.found THEN unwrap_or_default(from_str(sp.b))
                    ELSE ObfsParams_default]

\* lib.rs 69-75: Cookie::random_with_params
random_with_params(i, params) == [key |-> random_key(i), params |-> params]

\* <str as Debug>::fmt, the characters between the quotes: a double quote and
\* a backslash are escaped with a backslash
RECURSIVE escape_debug(_)
escape_debug(str) ==
    IF str = <<>> THEN <<>>
    ELSE (CASE Head(str) = Quote -> <<Backslash, Quote>>
            [] Head(str) = Backslash -> <<Backslash, Backslash>>
            [] Head(str) \in NameLex ->
                   <<Backslash, Quote, Unquote(Head(str)), Backslash, Quote>>
            [] OTHER -> <<Head(str)>>) \o escape_debug(Tail(str))

\* <String as Debug>::fmt: the escaped text in double quotes
str_debug(str) == <<Quote>> \o escape_debug(str) \o <<Quote>>

\* lib.rs 35-44: impl Debug for Cookie.  With fmt::Debug the only formatting
\* trait in scope (lib.rs 3), .fmt(f) on the String built by format! is the
\* String's Debug form
Cookie_fmt(c) ==
    str_debug(hex_encode(c.key) \o <<Dash, Dash, Dash>> \o to_string(c.params))

----------------------------------------------------------------------------
(* The dedup store: handshake identifiers with the time they were inserted, *)
(* behind a lock.  check_and_insert(id) takes the lock, evicts the entries   *)
(* older than the horizon, looks the identifier up, inserts it if absent,    *)
(* and releases the lock.                                                    *)

\* the eviction horizon, in clock ticks
Horizon == 1

Sessions == {"s1", "s2", "s3"}
Ids == {"id1", "id2"}
NoSession == "none"

\* entries not older than the horizon
evict(store, now) == {en \in store : now - en.at <= Horizon}

\* the identifier is in the store
contains(store, id) == \E en \in store : en.id = id

\* the store with the identifier inserted at the current time
insert(store, id, now) == store \cup {[id |-> id, at |-> now]}

\* a store whose lock does not exclude
LockFree_always(d) == TRUE

\* the store's lock is free
LockFree(d) == d.lock = NoSession

DedupInit ==
    [store |-> {}, lock |-> NoSession, now |-> 0,
     pc |-> [p \in Sessions |-> "idle"],
     arg |-> [p \in Sessions |-> "id1"],
     found |-> [p \in Sessions |-> FALSE],
     t |-> [p \in Sessions |-> 0],
     ncalls |-> [p \in Sessions |-> 0],
     calls |-> {}]

----------------------------------------------------------------------------
(* One adapter call.  The call works on a context c: the adapter's fields,  *)
(* the lower pipe as the call sees it (inq: bytes it can deliver, in_eof:   *)
(* the peer closed, out: bytes it has accepted), the lower pipe's remaining *)
(* responses (script), the calls made so far (log) and the result (res).    *)

NoRes == [t |-> "none", n |-> 0, e |-> ""]
\* the call never returns: its loop repeats an iteration that changes nothing
Diverges == [t |-> "diverges", n |-> 0, e |-> ""]
Starved == [t |-> "starved", n |-> 0, e |-> ""]
Invalid == [t |-> "invalid", n |-> 0, e |-> ""]

Snap(c) == [to_write_buf |-> c.to_write_buf, read_buf |-> c.read_buf,
            raw_read_buf |-> c.raw_read_buf]

Logged(c, call, r) ==
    [c EXCEPT !.log = Append(@, [call |-> call, r |-> r, snap |-> Snap(c)])]

\* what a lower pipe may answer to poll_write(buf): it accepts part of buf
ValidWriteResp(r, buf) == r.t = "ok" => (1 <= r.n /\ r.n <= Len(buf))
\* what a lower pipe may answer to poll_read(buf): it delivers at most
\* Len(buf) of the bytes it holds; zero means end of data (or an empty buf)
ValidReadResp(r, c) ==
    r.t = "ok" =>
        IF r.n = 0 THEN c.bsz = 0 \/ (c.inq = <<>> /\ c.in_eof)
        ELSE r.n <= c.bsz /\ r.n <= Len(c.inq)
\* poll_flush and poll_close answer Pending, Ready(Ok(())) or Ready(Err(e))
ValidUnitResp(r) == r.t = "ok" => r.n = 0

\* a lower pipe that answers Ready(Ok(0)) to this poll_write and to every later one
ZeroForever == [t |-> "zero_forever", n |-> 0, e |-> ""]

\* what the lower pipe of this configuration may answer to poll_write(buf)
LowerWriteResp(c, r) ==
    IF c.config.write_zero
    THEN r.t = "ok" => r.n <= Len(c.to_write_buf)
    ELSE ValidWriteResp(r, c.to_write_buf) /\ r.t # "zero_forever"

\* a write that encrypts its slice on every poll
NeedsEncrypt_always(c) == TRUE

\* lib.rs 121: encrypt only when no ciphertext is pending
NeedsEncrypt(c) == c.to_write_buf = <<>>

\* lib.rs 135, 158: to_write_buf.drain(..n), the n bytes now being the lower pipe's
drain_written(c, n) ==
    [c EXCEPT !.out = @ \o Take(c.to_write_buf, n), !.to_write_buf = Drain(@, n)]

\* a drain loop that stops after the first write the lower pipe accepts
Drained_early(c) == TRUE

\* lib.rs 136: the drain loop is done
Drained(c) == c.to_write_buf = <<>>

\* a completed write that reports one byte fewer than the slice holds
WriteReturn_short(c) == Ok(Len(c.buf) - 1)

\* lib.rs 142: what a completed write reports
WriteReturn(c) == Ok(Len(c.buf))

\* a lower pipe's error replaced by the adapter's own
LowerErr_masked(r) == Err(BrokenPipe)

\* lib.rs 145, 164, 195: a lower pipe's error is the call's result
LowerErr(r) == Err(r.e)

\* lib.rs 124-147: the drain loop of poll_write
RECURSIVE write_loop(_)
write_loop(c) ==
    IF c.script = <<>> THEN [c EXCEPT !.res = Starved]
    ELSE Bind(Head(c.script), LAMBDA r :
         Bind([Logged(c, "lower.poll_write", r) EXCEPT !.script = Tail(@)], LAMBDA c1 :
             IF ~LowerWriteResp(c, r) THEN [c EXCEPT !.res = Invalid]
             ELSE IF r.t = "pending" THEN [c1 EXCEPT !.res = Pending]
             ELSE IF r.t = "err" THEN [c1 EXCEPT !.res = LowerErr(r)]
             ELSE IF r.t = "zero_forever" THEN [c1 EXCEPT !.res = Diverges]
             ELSE Bind(drain_written(c1, r.n), LAMBDA c2 :
                     IF Drained(c2)
                     THEN [c2 EXCEPT !.res = WriteReturn(c2)]
                     ELSE write_loop(c2))))

\* lib.rs 112-148
poll_write(c) ==
    IF NeedsEncrypt(c)
    THEN Bind(encrypt(c.state, c.buf, c.to_write_buf), LAMBDA e :
             write_loop([Logged(c, "encrypt", Ok(Len(c.buf))) EXCEPT
                             !.state = e.state, !.to_write_buf = e.out]))
    ELSE write_loop(c)

\* lib.rs 168: this.lower.poll_flush(cx)
lower_flush(c) ==
    IF c.script = <<>> THEN [c EXCEPT !.res = Starved]
    ELSE LET r == Head(c.script)
         IN  IF ~ValidUnitResp(r) THEN [c EXCEPT !.res = Invalid]
             ELSE [Logged(c, "lower.poll_flush", r) EXCEPT !.script = Tail(@), !.res = r]

\* a flush that goes on to the lower flush with ciphertext left
FlushRemainder_ignored(c) == FALSE

\* lib.rs 159: ciphertext is left after the one write poll_flush makes
FlushRemainder(c) == c.to_write_buf # <<>>

\* lib.rs 150-169
poll_flush(c) ==
    IF c.to_write_buf # <<>>
    THEN IF c.script = <<>> THEN [c EXCEPT !.res = Starved]
         ELSE Bind(Head(c.script), LAMBDA r :
              Bind([Logged(c, "lower.poll_write", r) EXCEPT !.script = Tail(@)], LAMBDA c1 :
                  IF ~(LowerWriteResp(c, r) /\ r.t # "zero_forever")
                  THEN [c EXCEPT !.res = Invalid]
                  ELSE IF r.t = "pending" THEN [c1 EXCEPT !.res = Pending]
                  ELSE IF r.t = "err" THEN [c1 EXCEPT !.res = LowerErr(r)]
                  ELSE Bind(drain_written(c1, r.n), LAMBDA c2 :
                          IF FlushRemainder(c2)
                          THEN [c2 EXCEPT !.res = Pending]
                          ELSE lower_flush(c2))))
    ELSE lower_flush(c)

\* a close that first hands the pending ciphertext to the lower pipe
poll_close_draining(c) ==
    IF c.script = <<>> THEN [c EXCEPT !.res = Starved]
    ELSE LET r == Head(c.script)
         IN  IF ~ValidUnitResp(r) THEN [c EXCEPT !.res = Invalid]
             ELSE [Logged(c, "lower.poll_close", r) EXCEPT
                       !.script = Tail(@), !.res = r, !.closed = (r.t = "ok"),
                       !.out = @ \o c.to_write_buf, !.to_write_buf = <<>>]

\* lib.rs 171-176
poll_close(c) ==
    IF c.script = <<>> THEN [c EXCEPT !.res = Starved]
    ELSE LET r == Head(c.script)
         IN  IF ~ValidUnitResp(r) THEN [c EXCEPT !.res = Invalid]
             ELSE [Logged(c, "lower.poll_close", r) EXCEPT
                       !.script = Tail(@), !.res = r, !.closed = (r.t = "ok")]

\* State::decrypt's Result as the adapter receives it: an incomplete frame is
\* either an Err of a kind other than BrokenPipe, or Ok(0) with no output
decrypt_result(cfg, d) ==
    IF d.t = "needmore" /\ cfg.need_more = "ok0" THEN [d EXCEPT !.t = "ok"] ELSE d

\* every decrypt error returned to the caller
Fatal_any(d) == d.t # "ok"

\* lib.rs 228: the decrypt error that is fatal
Fatal(d) == d.t = "brokenpipe"

\* lib.rs 209-234: decrypt until decrypt fails
RECURSIVE decrypt_loop(_)
decrypt_loop(c) ==
    Bind(decrypt_result(c.config, decrypt(c.state, c.raw_read_buf)), LAMBDA d :
    Bind(Logged(c, "decrypt", [t |-> d.t, n |-> d.n, e |-> ""]), LAMBDA c1 :
        IF d.t = "ok"
        THEN IF d.n = 0 /\ d.out = <<>> /\ d.state = c.state
             THEN [c1 EXCEPT !.res = Diverges]
             ELSE decrypt_loop([c1 EXCEPT !.state = d.state,
                                          !.read_buf = @ \o d.out,
                                          !.raw_read_buf = Drain(@, d.n)])
        ELSE IF Fatal(d)
        THEN [c1 EXCEPT !.res = Err(BrokenPipe)]
        ELSE c1))

\* read_buf looked at only once the stream is closed
ReadReady_closed_only(c) == c.read_closed

\* lib.rs 188: the caller is served from read_buf
ReadReady(c) == c.read_buf # <<>> \/ c.read_closed

\* a read that copies from read_buf and leaves the bytes in it
read_from_buf_keep(c) ==
    LET k == Min(Len(c.read_buf), c.bsz)
    IN  [c EXCEPT !.res = Ok(k), !.data = Take(c.read_buf, k)]

\* lib.rs 190: read_buf.read(buf)
read_from_buf(c) ==
    LET k == Min(Len(c.read_buf), c.bsz)
    IN  [c EXCEPT !.res = Ok(k), !.data = Take(c.read_buf, k), !.read_buf = Drain(@, k)]

\* a scratch write that also truncates the pending ciphertext
fill_raw_clobber(c, n) ==
    [c EXCEPT !.raw_read_buf = @ \o Take(c.inq, n), !.inq = Drain(@, n),
              !.to_write_buf = <<>>]

\* lib.rs 201: raw_read_buf.write_all(&buf[..n]), the n bytes the lower pipe delivered
fill_raw(c, n) ==
    [c EXCEPT !.raw_read_buf = @ \o Take(c.inq, n), !.inq = Drain(@, n)]

\* lib.rs 181-239
RECURSIVE poll_read(_)
poll_read(c) ==
    IF ReadReady(c) THEN read_from_buf(c)
    ELSE IF c.script = <<>> THEN [c EXCEPT !.res = Starved]
    ELSE Bind(Head(c.script), LAMBDA r :
         Bind([Logged(c, "lower.poll_read", r) EXCEPT !.script = Tail(@)], LAMBDA c1 :
             IF ~ValidReadResp(r, c) THEN [c EXCEPT !.res = Invalid]
             ELSE IF r.t = "pending" THEN [c1 EXCEPT !.res = Pending]
             ELSE IF r.t = "err" THEN [c1 EXCEPT !.res = LowerErr(r)]
             ELSE IF r.n = 0 THEN poll_read([c1 EXCEPT !.read_closed = TRUE])
             ELSE Bind(decrypt_loop(fill_raw(c1, r.n)), LAMBDA c3 :
                     IF c3.res.t \in {"err", "diverges"} THEN c3 ELSE poll_read(c3))))

----------------------------------------------------------------------------
(* The system: two adapters back to back, and their callers *)

Ctx(a, buf, bsz, script) ==
    [state |-> state[a], read_buf |-> read_buf[a], read_closed |-> read_closed[a],
     raw_read_buf |-> raw_read_buf[a], to_write_buf |-> to_write_buf[a],
     inq |-> wire[Peer(a)], in_eof |-> wire_closed[Peer(a)], out |-> <<>>,
     closed |-> FALSE, buf |-> buf, bsz |-> bsz, data |-> <<>>,
     script |-> script, log |-> <<>>, res |-> NoRes, config |-> config]

\* the call returned, and the script is exactly what the lower pipe answered
Returned(c) == c.res.t \in {"pending", "ok", "err"} /\ c.script = <<>>
\* the call is over: it returned, or it will never return
Ended(c) == Returned(c) \/ (c.res.t = "diverges" /\ c.script = <<>>)

\* what the caller has now seen of a read: a clean end of data (Ok(0) into a
\* non-empty buffer), the fatal decrypt error; of any call: that it never returns
Seen(c) ==
    (IF c.res = Ok(0) /\ c.bsz > 0 THEN {"eof"} ELSE {})
        \cup (IF c.res = Err(BrokenPipe) THEN {"broken"} ELSE {})
        \cup (IF c.res = Diverges THEN {"hung"} ELSE {})

\* the adapter's task is not stuck inside a call
Alive(a) == "hung" \notin seen[a]

\* the adapter and its lower pipe as the call leaves them
Apply(a, c) ==
    /\ state' = [state EXCEPT ![a] = c.state]
    /\ read_buf' = [read_buf EXCEPT ![a] = c.read_buf]
    /\ read_closed' = [read_closed EXCEPT ![a] = c.read_closed]
    /\ raw_read_buf' = [raw_read_buf EXCEPT ![a] = c.raw_read_buf]
    /\ to_write_buf' = [to_write_buf EXCEPT ![a] = c.to_write_buf]
    /\ wire' = [wire EXCEPT ![a] = @ \o c.out, ![Peer(a)] = c.inq]
    /\ wire_closed' = [wire_closed EXCEPT ![a] = @ \/ c.closed]

\* the adapter's fields when a call starts
Pre(a) == [to_write_buf |-> to_write_buf[a], read_buf |-> read_buf[a],
           raw_read_buf |-> raw_read_buf[a], read_closed |-> read_closed[a],
           state |-> state[a], inq |-> wire[Peer(a)], in_eof |-> wire_closed[Peer(a)]]

\* what a call did: its argument (the slice, or the length of the read
\* buffer), its result, the engine and lower-pipe calls it made, the bytes
\* the lower pipe accepted (out) and the bytes handed to the caller (data)
Observe(a, op, mode, arg, pre, c) ==
    [a |-> a, op |-> op, mode |-> mode, arg |-> arg, bsz |-> c.bsz, res |-> c.res,
     log |-> c.log,
     out |-> c.out, data |-> c.data, pre |-> pre]

\* the collaborators as src/ has them: decrypt reports an incomplete frame as
\* an error, the lower pipe accepts at least one byte per successful write
DefaultConfig == [need_more |-> "err", write_zero |-> FALSE]

\* cookie strings given to Cookie::new: a token, and after "---" a JSON
\* object of up to MaxFields members, closed, left open, or followed by text
CookieTokens == {<<>>, <<"c">>, <<"c", Dash>>}
Members == [name : Names, val : ValueLex]
MemberLists == UNION {[1 .. k -> Members] : k \in 0 .. MaxFields}
Endings == {"closed", "open", "trailing"}
Shapes == [token : CookieTokens, sep : BOOLEAN, members : MemberLists, ending : Endings]

RECURSIVE RenderMembers(_)
RenderMembers(ms) ==
    IF ms = <<>> THEN <<>>
    ELSE <<Quoted(Head(ms).name), ":", Head(ms).val>>
             \o (IF Len(ms) > 1 THEN <<",">> ELSE <<>>) \o RenderMembers(Tail(ms))

Render(sh) ==
    IF ~sh.sep THEN sh.token
    ELSE sh.token \o <<Dash, Dash, Dash, "{">> \o RenderMembers(sh.members)
             \o (CASE sh.ending = "closed" -> <<"}">>
                    [] sh.ending = "open" -> <<>>
                    [] sh.ending = "trailing" -> <<"}", "c">>)

NoShape == [token |-> <<>>, sep |-> FALSE, members |-> <<>>, ending |-> "closed"]
NoCookie == [key |-> <<>>, params |-> ObfsParams_default]
NoCookieWork ==
    [step |-> "start", text |-> <<>>, shape |-> NoShape, cookie |-> NoCookie,
     from |-> NoCookie, printed |-> FALSE, rounds |-> 0]

\* SosistabPipe::new, after a handshake that gave both ends matching State
InitWith(cfg) ==
    /\ config = cfg
    /\ ck = NoCookieWork
    /\ dd = DedupInit
    /\ state = [a \in Adapters |->
                  IF a = "client" THEN NewState(1, 2) ELSE NewState(2, 1)]
    /\ read_buf = [a \in Adapters |-> <<>>]
    /\ read_closed = [a \in Adapters |-> FALSE]
    /\ raw_read_buf = [a \in Adapters |-> <<>>]
    /\ to_write_buf = [a \in Adapters |-> <<>>]
    /\ wire = [a \in Adapters |-> <<>>]
    /\ wire_closed = [a \in Adapters |-> FALSE]
    /\ w_busy = [a \in Adapters |-> FALSE]
    /\ w_slice = [a \in Adapters |-> <<>>]
    /\ w_count = [a \in Adapters |-> 0]
    /\ w_dead = [a \in Adapters |-> FALSE]
    /\ sent_plain = [a \in Adapters |-> <<>>]
    /\ recv_plain = [a \in Adapters |-> <<>>]
    /\ tampered = 0
    /\ seen = [a \in Adapters |-> {}]
    /\ lost = [a \in Adapters |-> {}]
    /\ last = [a |-> "client", op |-> "new", mode |-> "", arg |-> <<>>, bsz |-> 0,
               res |-> NoRes, log |-> <<>>, out |-> <<>>, data |-> <<>>, pre |-> Pre("client")]

Init == InitWith(DefaultConfig)

\* a slice the caller has not passed before: the next len bytes of its stream
FreshSlice(a, len) == [i \in 1 .. len |-> Len(sent_plain[a]) + i]

Range(s) == {s[i] : i \in 1 .. Len(s)}

\* the adapter's poll_write(buf) with the lower pipe answering script;
\* mode "new": a slice passed for the first time, "retry": the slice of the
\* suspended write again, "swap": another slice in place of the suspended one
WriteCall(a, buf, mode, script) ==
    \E c \in {poll_write(Ctx(a, buf, 0, script))} :
        /\ Alive(a) /\ Ended(c)
        /\ Apply(a, c)
        /\ seen' = [seen EXCEPT ![a] = @ \cup Seen(c)]
        /\ w_busy' = [w_busy EXCEPT ![a] = (c.res.t # "ok")]
        /\ w_dead' = [w_dead EXCEPT ![a] = (c.res.t = "err")]
        /\ w_slice' = [w_slice EXCEPT ![a] = buf]
        /\ w_count' = [w_count EXCEPT ![a] = IF mode = "retry" THEN @ ELSE @ + 1]
        /\ sent_plain' = [sent_plain EXCEPT ![a] = IF mode = "retry" THEN @ ELSE @ \o buf]
        /\ lost' = [lost EXCEPT ![a] = IF mode = "swap" THEN @ \cup Range(buf) ELSE @]
        /\ last' = Observe(a, "poll_write", mode, buf, Pre(a), c)
        /\ UNCHANGED <<recv_plain, tampered, side_vars>>

CanWrite(a) == ~wire_closed[a] /\ ~w_dead[a]
\* the call would encrypt a frame, and the model has frames left
CanEncrypt(a) == to_write_buf[a] = <<>> => state[a].send_n < MaxWrites

\* the lower pipe's answers during one poll_write: counts of 1 .. hi, and for
\* a lower pipe that may accept nothing also Ok(0), once or for ever
WriteScripts(hi) ==
    IF config.write_zero
    THEN SeqsUpTo(Resp(LowerErrs, 0, hi) \cup {ZeroForever}, MaxPolls)
    ELSE Scripts(1, hi)

\* the caller starts a write
WriteNew(a) ==
    /\ CanWrite(a) /\ ~w_busy[a] /\ w_count[a] < MaxWrites /\ CanEncrypt(a)
    /\ \E len \in 0 .. MaxSliceLen :
          \E script \in WriteScripts(len + 2) :
              WriteCall(a, FreshSlice(a, len), "new", script)

\* the caller re-polls the write that returned Pending, with the same slice
WriteRetry(a) ==
    /\ CanWrite(a) /\ w_busy[a] /\ CanEncrypt(a)
    /\ \E script \in WriteScripts(Len(w_slice[a]) + 2) :
          WriteCall(a, w_slice[a], "retry", script)

\* the caller re-polls with a different slice while ciphertext is pending
WriteSwap(a) ==
    /\ CanWrite(a) /\ w_busy[a] /\ to_write_buf[a] # <<>> /\ w_count[a] < MaxWrites
    /\ \E len \in 1 .. MaxSliceLen :
          \E script \in Scripts(1, Len(to_write_buf[a])) :
              WriteCall(a, FreshSlice(a, len), "swap", script)

FlushCall(a, script) ==
    \E c \in {poll_flush(Ctx(a, <<>>, 0, script))} :
        /\ Alive(a) /\ Returned(c)
        /\ Apply(a, c)
        /\ w_dead' = [w_dead EXCEPT ![a] = (c.res.t = "err")]
        /\ last' = Observe(a, "poll_flush", "", <<>>, Pre(a), c)
        /\ UNCHANGED <<w_busy, w_slice, w_count, sent_plain, recv_plain, tampered, seen,
                       lost, side_vars>>

\* the caller flushes, also while a write is suspended
Flush(a) ==
    /\ CanWrite(a)
    /\ \E script \in Scripts(0, Len(to_write_buf[a])) : FlushCall(a, script)

\* the caller flushes between writes only
FlushIdle(a) ==
    /\ CanWrite(a) /\ ~w_busy[a]
    /\ \E script \in Scripts(0, Len(to_write_buf[a])) : FlushCall(a, script)

Close(a) ==
    /\ CanWrite(a)
    /\ \E script \in Scripts(0, 0) :
          \E c \in {poll_close(Ctx(a, <<>>, 0, script))} :
              /\ Alive(a) /\ Returned(c)
              /\ Apply(a, c)
              /\ w_dead' = [w_dead EXCEPT ![a] = (c.res.t = "err")]
              /\ last' = Observe(a, "poll_close", "", <<>>, Pre(a), c)
              /\ UNCHANGED <<w_busy, w_slice, w_count, sent_plain, recv_plain, tampered,
                             seen, lost, side_vars>>


ReadCall(a, bsz, script) ==
    \E c \in {poll_read(Ctx(a, <<>>, bsz, script))} :
        /\ Alive(a) /\ Ended(c)
        /\ Apply(a, c)
        /\ recv_plain' = [recv_plain EXCEPT ![a] = @ \o c.data]
        /\ seen' = [seen EXCEPT ![a] = @ \cup Seen(c)]
        /\ last' = Observe(a, "poll_read", "", <<>>, Pre(a), c)
        /\ UNCHANGED <<w_busy, w_slice, w_count, w_dead, sent_plain, tampered, lost,
                       side_vars>>

Read(a) ==
    \E bsz \in 0 .. MaxBuf :
        \E script \in Scripts(0, Min(bsz, Len(wire[Peer(a)]))) : ReadCall(a, bsz, script)

\* one byte of the ciphertext in flight is altered
Tamper(a) ==
    /\ tampered < MaxTamper
    /\ \E i \in 1 .. Len(wire[a]) :
          wire' = [wire EXCEPT ![a][i] = @ + 1]
    /\ tampered' = tampered + 1
    /\ UNCHANGED <<state, read_buf, read_closed, raw_read_buf, to_write_buf, wire_closed,
                   w_busy, w_slice, w_count, w_dead, sent_plain, recv_plain, seen, lost,
                   last, side_vars>>

\* a cookie string arrives (typed by the user, or read from a configuration)
CookieInput ==
    /\ ck.step = "start"
    /\ \E sh \in Shapes :
          ck' = [ck EXCEPT !.step = "text", !.text = Render(sh), !.shape = sh]
    /\ UNCHANGED <<pipe_vars, config, dd>>

\* Cookie::random_with_params(params)
CookieRandom ==
    /\ ck.step = "start"
    /\ \E i \in 1 .. 2, ol \in BOOLEAN, ot \in BOOLEAN :
          ck' = [ck EXCEPT !.step = "cookie",
                           !.cookie = random_with_params(i, [obfs_lengths |-> ol,
                                                             obfs_timing |-> ot])]
    /\ UNCHANGED <<pipe_vars, config, dd>>

\* Cookie::new(text)
CookieNew ==
    /\ ck.step = "text"
    /\ ck' = [ck EXCEPT !.step = "cookie", !.cookie = Cookie_new(ck.text)]
    /\ UNCHANGED <<pipe_vars, config, dd>>

\* format!("{:?}", cookie): the text is now the printed cookie
CookieDebug ==
    /\ ck.step = "cookie" /\ ck.rounds < MaxRounds
    /\ ck' = [ck EXCEPT !.step = "text", !.text = Cookie_fmt(ck.cookie),
                         !.from = ck.cookie, !.printed = TRUE, !.rounds = @ + 1]
    /\ UNCHANGED <<pipe_vars, config, dd>>

NextCookie == CookieInput \/ CookieRandom \/ CookieNew \/ CookieDebug

SpecCookie == Init /\ [][NextCookie]_vars

\* session p calls check_and_insert(id) and takes the store's lock
DedupLock(p) ==
    /\ dd.pc[p] = "idle" /\ dd.ncalls[p] < MaxCalls /\ LockFree(dd)
    /\ \E id \in Ids :
          dd' = [dd EXCEPT !.pc[p] = "locked", !.arg[p] = id, !.lock = p]
    /\ UNCHANGED <<pipe_vars, config, ck>>

\* under the lock: the call reads the clock, old entries are evicted and the
\* identifier is looked up
DedupCheck(p) ==
    /\ dd.pc[p] = "locked"
    /\ \E st \in {evict(dd.store, dd.now)} :
          dd' = [dd EXCEPT !.pc[p] = "checked", !.store = st, !.t[p] = dd.now,
                           !.found[p] = contains(st, dd.arg[p])]
    /\ UNCHANGED <<pipe_vars, config, ck>>

\* under the lock: an absent identifier is inserted; the lock is released and
\* the call reports whether the identifier was fresh
DedupInsert(p) ==
    /\ dd.pc[p] = "checked"
    /\ dd' = [dd EXCEPT
                 !.pc[p] = "idle",
                 !.store = IF dd.found[p] THEN @ ELSE insert(@, dd.arg[p], dd.t[p]),
                 !.lock = IF @ = p THEN NoSession ELSE @,
                 !.ncalls[p] = @ + 1,
                 !.calls = @ \cup {[p |-> p, k |-> dd.ncalls[p] + 1, id |-> dd.arg[p],
                                    fresh |-> ~dd.found[p], at |-> dd.t[p]]}]
    /\ UNCHANGED <<pipe_vars, config, ck>>

\* time passes
DedupTick ==
    /\ dd.now < MaxTime
    /\ dd' = [dd EXCEPT !.now = @ + 1]
    /\ UNCHANGED <<pipe_vars, config, ck>>

NextDedup ==
    \/ \E p \in Sessions : DedupLock(p)
    \/ \E p \in Sessions : DedupCheck(p)
    \/ \E p \in Sessions : DedupInsert(p)
    \/ DedupTick

SpecDedup == Init /\ [][NextDedup]_vars

\* client writes, server reads
Writers == {"client"}
Readers == {"server"}

\* any caller: writes retried with the same slice, flushes at any time
Next ==
    \/ \E a \in Writers : WriteNew(a)
    \/ \E a \in Writers : WriteRetry(a)
    \/ \E a \in Writers : Flush(a)
    \/ \E a \in Writers : Close(a)
    \/ \E a \in Readers : Read(a)

Spec == Init /\ [][Next]_vars

\* the same callers over a State whose decrypt reports an incomplete frame
\* as Ok(0) with no output
NeedMoreOkConfig == [need_more |-> "ok0", write_zero |-> FALSE]

SpecNeedMoreOk == InitWith(NeedMoreOkConfig) /\ [][Next]_vars

\* the same callers over a lower pipe whose poll_write may return Ready(Ok(0))
ZeroWriteConfig == [need_more |-> "err", write_zero |-> TRUE]

SpecZeroWrite == InitWith(ZeroWriteConfig) /\ [][Next]_vars

\* the writer of claim C1: each slice retried until Ready, flushes between writes
NextRetry ==
    \/ \E a \in Writers : WriteNew(a)
    \/ \E a \in Writers : WriteRetry(a)
    \/ \E a \in Writers : FlushIdle(a)
    \/ \E a \in Writers : Close(a)
    \/ \E a \in Readers : Read(a)

SpecRetry == Init /\ [][NextRetry]_vars

\* a writer that may change the slice between suspensions
NextSwap ==
    \/ \E a \in Writers : WriteNew(a)
    \/ \E a \in Writers : WriteRetry(a)
    \/ \E a \in Writers : WriteSwap(a)
    \/ \E a \in Readers : Read(a)

SpecSwap == Init /\ [][NextSwap]_vars

\* a lower pipe whose bytes may be altered in flight
NextTamper ==
    \/ \E a \in Writers : WriteNew(a)
    \/ \E a \in Writers : WriteRetry(a)
    \/ \E a \in Writers : Close(a)
    \/ \E a \in Writers : Tamper(a)
    \/ \E a \in Readers : Read(a)

SpecTamper == Init /\ [][NextTamper]_vars

\* one adapter used in both directions at once: the client writes, flushes,
\* closes and reads while the server writes one slice to it
DuplexWriteNew(a) == w_count[a] < LiveWrites /\ WriteNew(a)

NextDuplex ==
    \/ \E a \in Adapters : DuplexWriteNew(a)
    \/ \E a \in Writers : WriteRetry(a)
    \/ \E a \in Writers : Flush(a)
    \/ \E a \in Writers : Close(a)
    \/ \E a \in Writers : Read(a)

SpecDuplex == Init /\ [][NextDuplex]_vars

\* both directions at once, over lower pipes that do not fail; every caller
\* retries its write with the same slice and reads into a non-empty buffer
LiveWriteNew(a) ==
    /\ ~w_busy[a] /\ w_count[a] < LiveWrites
    /\ \E len \in 0 .. MaxSliceLen :
          \E script \in CalmScripts(1, len + 2) :
              WriteCall(a, FreshSlice(a, len), "new", script)

LiveWriteRetry(a) ==
    /\ w_busy[a]
    /\ \E script \in CalmScripts(1, Len(w_slice[a]) + 2) :
          WriteCall(a, w_slice[a], "retry", script)

LiveRead(a) ==
    \E bsz \in 1 .. MaxBuf :
        \E script \in CalmScripts(1, Min(bsz, Len(wire[Peer(a)]))) :
            ReadCall(a, bsz, script)

\* a re-poll of the suspended write during which the lower pipe accepts one
\* byte, and then is not ready if more is pending
AcceptOne(a) ==
    IF Len(to_write_buf[a]) = 1 THEN <<Ok(1)>> ELSE <<Ok(1), Pending>>

WriteProgress(a) ==
    /\ w_busy[a] /\ to_write_buf[a] # <<>>
    /\ WriteCall(a, w_slice[a], "retry", AcceptOne(a))

\* a read into a one-byte buffer that is served from read_buf, or during
\* which the lower pipe delivers one byte
ReadProgress(a) ==
    \E script \in {<<>>, <<Ok(1)>>, <<Ok(1), Pending>>} : ReadCall(a, 1, script)

NextLive ==
    \/ \E a \in Adapters : LiveWriteNew(a)
    \/ \E a \in Adapters : LiveWriteRetry(a)
    \/ \E a \in Adapters : LiveRead(a)

\* the lower pipes eventually accept and deliver, and the callers keep polling
FairLive ==
    \A a \in Adapters : WF_vars(WriteProgress(a)) /\ WF_vars(ReadProgress(a))

SpecLive == Init /\ [][NextLive]_vars /\ FairLive

----------------------------------------------------------------------------
(* Claims *)

LowerCall(x) == x.call \in {"lower.poll_write", "lower.poll_read", "lower.poll_flush",
                            "lower.poll_close"}
LastLog == last.log
LogIdx == 1 .. Len(last.log)

\* C2: poll_write returns Ready(Ok(n)) only with to_write_buf empty, every
\* pending ciphertext byte accepted by the lower pipe, and n the full length
\* of the caller's slice, never a partial count.
C2_WriteReadyOnlyFlushed ==
    (last.op = "poll_write" /\ last.res.t = "ok") =>
        /\ to_write_buf[last.a] = <<>>
        /\ last.res.n = Len(last.arg)
        /\ \E i \in LogIdx :
              /\ LastLog[i].call = "lower.poll_write"
              /\ LastLog[i].snap.to_write_buf = last.out
              /\ last.out # <<>>

\* a write that completed after the lower pipe took the frame in three parts
C2_Witness ==
    /\ last.op = "poll_write" /\ last.res = Ok(2) /\ last.mode = "retry"
    /\ Len(last.pre.to_write_buf) = 3
    /\ Len(last.log) = 2
    /\ to_write_buf[last.a] = <<>>

\* C4 (as claimed): whenever an adapter call returns Pending, a lower-pipe
\* poll made during that call returned Pending.
C4_PendingWakes ==
    (last.op \in {"poll_write", "poll_flush", "poll_read"} /\ last.res.t = "pending") =>
        \E i \in LogIdx : LowerCall(LastLog[i]) /\ LastLog[i].r.t = "pending"

\* C5: poll_flush returns Ready(Ok) only with to_write_buf empty and the lower
\* poll_flush Ready(Ok) in that call; the lower poll_flush is never invoked
\* with ciphertext in to_write_buf; no byte leaves to_write_buf that the lower
\* pipe has not accepted.
C5_FlushDrainsFirst ==
    last.op = "poll_flush" =>
        /\ last.res.t = "ok" =>
              /\ to_write_buf[last.a] = <<>>
              /\ LastLog # <<>>
              /\ LastLog[Len(LastLog)].call = "lower.poll_flush"
              /\ LastLog[Len(LastLog)].r = Ok(0)
        /\ \A i \in LogIdx :
              LastLog[i].call = "lower.poll_flush" => LastLog[i].snap.to_write_buf = <<>>
        /\ last.pre.to_write_buf = last.out \o to_write_buf[last.a]
        /\ \A i \in LogIdx :
              LastLog[i].call = "lower.poll_write" =>
                  last.out = Take(LastLog[i].snap.to_write_buf, LastLog[i].r.n)

\* a flush that drained pending ciphertext and then flushed the lower pipe
C5_Witness ==
    /\ last.op = "poll_flush" /\ last.res = Ok(0)
    /\ Len(last.pre.to_write_buf) = 2
    /\ Len(last.log) = 2

\* C6: with read_buf non-empty or read_closed set, poll_read returns Ready with
\* bytes taken from the front of read_buf, polls nothing, decrypts nothing and
\* leaves raw_read_buf alone; into a non-empty buffer it returns Ok(0) only
\* with read_closed set and read_buf empty, and after that every poll_read
\* returns Ok(0).
C6_ServeFromReadBuf ==
    last.op = "poll_read" =>
        /\ (last.pre.read_buf # <<>> \/ last.pre.read_closed) =>
              /\ last.res.t = "ok"
              /\ last.log = <<>>
              /\ raw_read_buf[last.a] = last.pre.raw_read_buf
              /\ state[last.a] = last.pre.state
              /\ last.data \o read_buf[last.a] = last.pre.read_buf
              /\ last.res.n = Len(last.data)
              /\ last.res.n = Min(Len(last.pre.read_buf), last.bsz)
        /\ (last.res = Ok(0) /\ last.bsz > 0) =>
              read_closed[last.a] /\ read_buf[last.a] = <<>>
        /\ "eof" \in seen[last.a] => last.res = Ok(0)

\* a read served from read_buf while the lower pipe had bytes to deliver
C6_Witness ==
    /\ last.op = "poll_read" /\ last.res = Ok(1)
    /\ Len(last.pre.read_buf) = 1
    /\ wire[Peer(last.a)] # <<>>

\* C8: decrypt's need-more-data outcome is never the caller's result: with
\* read_buf still empty poll_read keeps the undecrypted bytes and polls the
\* lower pipe again; an error it returns is the lower pipe's or the fatal one
\* of a later decrypt, and Ok(0) follows only a zero-length lower read.
NeedMoreAt(i) == LastLog[i].call = "decrypt" /\ LastLog[i].r.t = "needmore"

C8_NeedMoreNotSurfaced ==
    last.op = "poll_read" =>
        \A i \in LogIdx :
            (NeedMoreAt(i) /\ LastLog[i].snap.read_buf = <<>>) =>
                /\ i < Len(LastLog)
                /\ LastLog[i + 1].call = "lower.poll_read"
                /\ LastLog[i + 1].snap.raw_read_buf = LastLog[i].snap.raw_read_buf
                /\ IsPrefix(LastLog[i].snap.raw_read_buf, raw_read_buf[last.a])
                      \/ \E j \in (i + 1) .. Len(LastLog) :
                            LastLog[j].call = "decrypt" /\ LastLog[j].r.t # "needmore"
                /\ last.res.t = "err" =>
                      \E j \in (i + 1) .. Len(LastLog) :
                          \/ /\ LastLog[j].call = "lower.poll_read"
                             /\ LastLog[j].r = last.res
                          \/ /\ LastLog[j].call = "decrypt"
                             /\ LastLog[j].r.t = "brokenpipe"
                /\ last.res = Ok(0) =>
                      \E j \in (i + 1) .. Len(LastLog) :
                          LastLog[j].call = "lower.poll_read" /\ LastLog[j].r = Ok(0)

\* a read that met an incomplete frame, polled again, and returned Pending
\* with the partial frame kept
C8_Witness ==
    /\ last.op = "poll_read" /\ last.res = Pending
    /\ Len(last.log) = 3
    /\ NeedMoreAt(2)
    /\ raw_read_buf[last.a] # <<>>

\* C10: a lower-pipe error is the call's result, verbatim; the call makes no
\* further lower-pipe call and leaves the buffers as they were before the
\* failing lower call.
C10_LowerErrVerbatim ==
    \A i \in LogIdx :
        (LowerCall(LastLog[i]) /\ LastLog[i].r.t = "err") =>
            /\ i = Len(LastLog)
            /\ last.res = Err(LastLog[i].r.e)
            /\ to_write_buf[last.a] = LastLog[i].snap.to_write_buf
            /\ read_buf[last.a] = LastLog[i].snap.read_buf
            /\ raw_read_buf[last.a] = LastLog[i].snap.raw_read_buf

\* a write whose second lower write failed after the first took one byte
C10_Witness ==
    /\ last.op = "poll_write" /\ last.res = Err("TimedOut")
    /\ Len(last.out) = 1
    /\ to_write_buf[last.a] # <<>>

\* C1: with a writer that retries each slice until Ready, over a reliable
\* in-order lower pipe delivering in arbitrary chunks, what the reader's
\* poll_read calls have returned is a prefix of what was passed to poll_write.
C1_ReaderGetsPrefix ==
    \A a \in Writers : IsPrefix(recv_plain[Peer(a)], sent_plain[a])

\* two slices written, three bytes of them read, the rest still under way
C1_Witness ==
    /\ w_count["client"] = 2
    /\ Len(sent_plain["client"]) = 4
    /\ Len(recv_plain["server"]) = 3
    /\ raw_read_buf["server"] = <<>>

\* nothing of writer a's stream is under way
Quiet(a) ==
    /\ ~w_busy[a] /\ to_write_buf[a] = <<>> /\ wire[a] = <<>>
    /\ raw_read_buf[Peer(a)] = <<>> /\ read_buf[Peer(a)] = <<>>

\* C3: a poll_write re-polled with another slice B while ciphertext is pending
\* does not encrypt B, hands the lower pipe only ciphertext that was already
\* pending, and reports Len(B) when it completes, so B never reaches the
\* reader; with every write retried with its own slice nothing written is lost.
C3_SameSliceNeeded ==
    /\ (last.op = "poll_write" /\ last.mode = "swap") =>
          /\ \A i \in LogIdx : LastLog[i].call # "encrypt"
          /\ state[last.a] = last.pre.state
          /\ last.pre.to_write_buf = last.out \o to_write_buf[last.a]
          /\ last.res.t = "ok" => last.res.n = Len(last.arg)
    /\ \A a \in Writers :
          /\ lost[a] \cap Range(recv_plain[Peer(a)]) = {}
          /\ (lost[a] = {} /\ Quiet(a)) => recv_plain[Peer(a)] = sent_plain[a]

\* a slice was swapped in, reported written, everything under way has arrived,
\* and the reader has the first slice only
C3_Witness ==
    /\ lost["client"] # {}
    /\ Quiet("client")
    /\ recv_plain["server"] # <<>>
    /\ Len(recv_plain["server"]) < Len(sent_plain["client"])

\* C7 (as claimed): once poll_read has returned the fatal error, no later
\* poll_read returns plaintext or a clean end of data.
C7_BrokenIsFinal ==
    (last.op = "poll_read" /\ "broken" \in seen[last.a]) =>
        ~(last.res.t = "ok" /\ (last.res.n > 0 \/ last.bsz > 0))

\* C9: with lower pipes that eventually accept and deliver and callers that
\* keep polling, each suspended poll_write eventually returns Ready with the
\* full length of its slice, and every byte passed to poll_write is eventually
\* returned by the peer's poll_read, same count and content, in both directions.
C9_BothDirectionsDeliver ==
    \A a \in Adapters :
        /\ w_busy[a] ~>
              (/\ last.op = "poll_write" /\ last.a = a
               /\ last.arg = w_slice[a] /\ last.res = Ok(Len(w_slice[a])))
        /\ \A n \in 1 .. (LiveWrites * MaxSliceLen) :
              (Len(sent_plain[a]) >= n) ~>
                  (/\ Len(recv_plain[Peer(a)]) >= n
                   /\ Take(recv_plain[Peer(a)], n) = Take(sent_plain[a], n))

\* both peers have written a slice and each has read the other's in full
C9_Witness ==
    \A a \in Adapters :
        /\ Len(sent_plain[a]) = MaxSliceLen
        /\ recv_plain[Peer(a)] = sent_plain[a]
        /\ ~w_busy[a]

\* C11: poll_close makes exactly one call, the lower pipe's poll_close, and
\* returns its result; it hands the lower pipe no bytes, calls neither encrypt
\* nor decrypt, and leaves to_write_buf, read_buf, raw_read_buf, read_closed and
\* the engine state as they were, also with ciphertext pending.
C11_CloseOnlyForwards ==
    last.op = "poll_close" =>
        /\ Len(LastLog) = 1
        /\ LastLog[1].call = "lower.poll_close"
        /\ last.res = LastLog[1].r
        /\ last.out = <<>>
        /\ to_write_buf[last.a] = last.pre.to_write_buf
        /\ read_buf[last.a] = last.pre.read_buf
        /\ raw_read_buf[last.a] = last.pre.raw_read_buf
        /\ read_closed[last.a] = last.pre.read_closed
        /\ state[last.a] = last.pre.state

\* a close that succeeded while part of a frame was still pending
C11_Witness ==
    /\ last.op = "poll_close" /\ last.res = Ok(0)
    /\ last.pre.to_write_buf # <<>>
    /\ wire_closed[last.a]

\* the cookie string at hand is a token, "---" and a well-formed JSON object
\* whose members are distinct fields of ObfsParams with boolean values
FieldsSubset(sh) ==
    /\ sh.sep /\ sh.ending = "closed"
    /\ \A i \in 1 .. Len(sh.members) :
          /\ sh.members[i].name \in FieldNames
          /\ sh.members[i].val \in {"true", "false"}
          /\ \A j \in 1 .. Len(sh.members) :
                sh.members[j].name = sh.members[i].name => j = i

\* the value the string gives field n, FALSE if it does not name it
Given(sh, n) ==
    \E i \in 1 .. Len(sh.members) : sh.members[i].name = n /\ sh.members[i].val = "true"

\* C12 (as claimed): for every subset of {obfs_lengths, obfs_timing} present
\* in a well-formed JSON object after "---", Cookie::new sets each present
\* field to its given value and each missing field to false.
C12_FieldsOptional ==
    (ck.step = "cookie" /\ ~ck.printed /\ FieldsSubset(ck.shape)) =>
        \A n \in FieldNames : ck.cookie.params[n] = Given(ck.shape, n)

\* C13 (as claimed): Cookie::new applied to the text printed for a cookie
\* yields a cookie with the same key and the same params.
C13_DebugRoundTrip ==
    (ck.step = "cookie" /\ ck.printed) =>
        /\ ck.cookie.key = ck.from.key
        /\ ck.cookie.params = ck.from.params

\* the two calls were made within the eviction horizon of each other
Within(c1, c2) == c1.at - c2.at <= Horizon /\ c2.at - c1.at <= Horizon

\* C14: of the check_and_insert calls with the same id made within the
\* horizon, under every interleaving, exactly one reports fresh: no two do,
\* and a call that reports the id present follows a fresh one; an entry
\* inserted stays in the store, whatever else is inserted, until it is older
\* than the horizon.
C14_OneFresh ==
    /\ \A c1 \in dd.calls : \A c2 \in dd.calls :
          (c1 # c2 /\ c1.id = c2.id /\ c1.fresh /\ c2.fresh) => ~Within(c1, c2)
    /\ \A c \in dd.calls :
          ~c.fresh => \E c0 \in dd.calls :
                          c0.id = c.id /\ c0.fresh /\ c0.at <= c.at /\ Within(c0, c)
    /\ \A c \in dd.calls :
          (c.fresh /\ dd.now - c.at <= Horizon) =>
              [id |-> c.id, at |-> c.at] \in dd.store

\* two sessions presented the same id at the same time, a third inserted
\* another id, and one of the two was told its id is fresh
C14_Witness ==
    /\ Cardinality({c \in dd.calls : c.id = "id1" /\ c.at = 0}) = 2
    /\ Cardinality({c \in dd.calls : c.id = "id1" /\ c.at = 0 /\ c.fresh}) = 1
    /\ \E c \in dd.calls : c.id = "id2" /\ c.at = 0 /\ c.fresh
    /\ Cardinality(dd.store) = 2

\* C15 (as claimed): for a caller that retries poll_write with the same slice,
\* under every interleaving of poll_write and poll_flush, a re-poll does not
\* call encrypt again: the frames encrypted are one per slice, and what the
\* lower pipe has accepted decrypts to a prefix of the slices written.
C15_EncryptOnce ==
    /\ (last.op = "poll_write" /\ last.mode = "retry") =>
          \A i \in LogIdx : LastLog[i].call # "encrypt"
    /\ \A a \in Writers : state[a].send_n <= w_count[a]
    /\ \A a \in Writers : IsPrefix(recv_plain[Peer(a)], sent_plain[a])

\* C16 (as claimed): every poll_read call returns, Ready or Pending, after
\* finitely many decrypt invocations, also when decrypt reports an incomplete
\* frame as zero bytes consumed, no output and no error.
C16_ReadReturns ==
    last.op = "poll_read" => last.res.t \in {"pending", "ok", "err"}

\* C17 (as claimed): when the lower pipe reaches end of data while
\* raw_read_buf holds bytes of an incomplete frame, poll_read does not report
\* a clean end of data: it returns Ok(0) into a non-empty buffer only with
\* raw_read_buf empty.
C17_TruncatedIsError ==
    (last.op = "poll_read" /\ last.bsz > 0 /\ last.res = Ok(0)) =>
        raw_read_buf[last.a] = <<>>

\* C18 (as claimed): every poll_write call returns, Ready or Pending, after
\* finitely many lower-pipe writes, also over a lower pipe whose poll_write
\* returns Ready(Ok(0)) while to_write_buf is non-empty.
C18_WriteReturns ==
    last.op = "poll_write" => last.res.t \in {"pending", "ok", "err"}

\* C19 (as claimed): read_closed is set only when the lower pipe has reached
\* end of data, whatever the length of the caller's buffer; once set it is
\* never cleared and the lower pipe is not polled for reading again.
C19_ReadClosedMeansEof ==
    /\ \A a \in Adapters :
          read_closed[a] => (wire_closed[Peer(a)] /\ wire[Peer(a)] = <<>>)
    /\ (last.op = "poll_read" /\ last.pre.read_closed) =>
          /\ read_closed[last.a]
          /\ \A i \in LogIdx : LastLog[i].call # "lower.poll_read"

\* the lower pipe's answers during a call, in order
RECURSIVE Answers(_)
Answers(log) ==
    IF log = <<>> THEN <<>>
    ELSE (IF LowerCall(Head(log)) THEN <<Head(log).r>> ELSE <<>>) \o Answers(Tail(log))

\* the context of call l with the other direction as new: for a read nothing
\* written or pending, for a write-side call nothing read or buffered
AloneCtx(l) ==
    LET rd == l.op = "poll_read"
    IN  [state |-> IF rd THEN [l.pre.state EXCEPT !.send_n = 0]
                   ELSE [l.pre.state EXCEPT !.recv_n = 0],
         read_buf |-> IF rd THEN l.pre.read_buf ELSE <<>>,
         read_closed |-> IF rd THEN l.pre.read_closed ELSE FALSE,
         raw_read_buf |-> IF rd THEN l.pre.raw_read_buf ELSE <<>>,
         to_write_buf |-> IF rd THEN <<>> ELSE l.pre.to_write_buf,
         inq |-> IF rd THEN l.pre.inq ELSE <<>>,
         in_eof |-> IF rd THEN l.pre.in_eof ELSE FALSE,
         out |-> <<>>, closed |-> FALSE,
         buf |-> l.arg,
         bsz |-> l.bsz,
         data |-> <<>>, script |-> Answers(l.log), log |-> <<>>, res |-> NoRes,
         config |-> config]

\* call l made alone, the lower pipe answering as it did
Alone(l) ==
    CASE l.op = "poll_read" -> poll_read(AloneCtx(l))
      [] l.op = "poll_write" -> poll_write(AloneCtx(l))
      [] l.op = "poll_flush" -> poll_flush(AloneCtx(l))
      [] l.op = "poll_close" -> poll_close(AloneCtx(l))

WriteSideLog(x) == x.call \in {"encrypt", "lower.poll_write", "lower.poll_flush",
                               "lower.poll_close"}
ReadSideLog(x) == x.call \in {"decrypt", "lower.poll_read"}

\* C20: poll_read leaves to_write_buf and the sending side of the engine
\* alone and hands the lower pipe nothing; poll_write, poll_flush and
\* poll_close leave read_buf, raw_read_buf, read_closed and the receiving side
\* alone and take nothing from the lower pipe; and each call returns what it
\* returns when made alone, with the other direction never used.
C20_NoInterference ==
    /\ last.op = "poll_read" =>
          /\ to_write_buf[last.a] = last.pre.to_write_buf
          /\ state[last.a].send_n = last.pre.state.send_n
          /\ last.out = <<>>
          /\ \A i \in LogIdx : ~WriteSideLog(LastLog[i])
          /\ \E c \in {Alone(last)} :
                /\ c.res = last.res /\ c.data = last.data
                /\ c.read_buf = read_buf[last.a]
                /\ c.raw_read_buf = raw_read_buf[last.a]
                /\ c.read_closed = read_closed[last.a]
                /\ c.state.recv_n = state[last.a].recv_n
                /\ c.inq = wire[Peer(last.a)]
    /\ last.op \in {"poll_write", "poll_flush", "poll_close"} =>
          /\ read_buf[last.a] = last.pre.read_buf
          /\ raw_read_buf[last.a] = last.pre.raw_read_buf
          /\ read_closed[last.a] = last.pre.read_closed
          /\ state[last.a].recv_n = last.pre.state.recv_n
          /\ wire[Peer(last.a)] = last.pre.inq
          /\ \A i \in LogIdx : ~ReadSideLog(LastLog[i])
          /\ \E c \in {Alone(last)} :
                /\ c.res = last.res /\ c.out = last.out
                /\ c.to_write_buf = to_write_buf[last.a]
                /\ c.state.send_n = state[last.a].send_n

\* a read that took bytes from the lower pipe and returned plaintext while a
\* write of the same adapter was suspended with ciphertext pending
C20_Witness ==
    /\ last.op = "poll_read" /\ last.res.t = "ok" /\ last.res.n > 0
    /\ last.log # <<>>
    /\ w_busy[last.a] /\ to_write_buf[last.a] # <<>>

====
